---- MODULE Spec2Model ----
(***************************************************************************)
(* Per-call conversational turn state machine of the Nuovo Baffone voice   *)
(* assistant.  The repository holds two overlapping prototypes of the same *)
(* server:                                                                 *)
(*   - src/server.js            one webhook, POST /voice, no error handler *)
(*   - src/unnamed/part_000     two webhooks, POST /voice and POST /gather *)
(* A behaviour of this module runs one of the two (variable program).      *)
(* Node.js runs a handler without interruption until its next await, so    *)
(* one action is the code between two awaits of one request.               *)
(***************************************************************************)
EXTENDS Integers, Sequences, FiniteSets, TLC

VARIABLES
    program,    \* which prototype is deployed
    sessions,   \* the in-memory session store (server.js:21, part_000:68)
    handlers,   \* the webhook invocations, in arrival order, with their locals
    files,      \* the file system seen by fs.writeFile / express.static
    uuidCount,  \* number of uuidv4() calls made so far
    created     \* history variable: the callSids for which a session was created

vars == <<program, sessions, handlers, files, uuidCount, created>>

(***************************************************************************)
(* Bounds of the model.                                                    *)
(***************************************************************************)
MaxReq == 2     \* webhook invocations per behaviour
MaxCalls == 2   \* distinct call identifiers supplied by the telephony layer

(***************************************************************************)
(* JavaScript values.                                                      *)
(***************************************************************************)
undefined == "undefined"
null == "null"

Truthy(x) == x # undefined /\ x # null /\ x # ""

\* mutant: the fallback operand is dropped
OrElse_Left(a, b) == a

\* a || b
OrElse(a, b) == IF Truthy(a) THEN a ELSE b

Programs == {"server.js", "part_000"}

BASE_URL == "http://localhost:3000"

PROMPT_TEMPLATE == "Sei NuovoBaffoneAI"
SERVER_PROMPT == "Sei Assistente Baffone"
greetingText == "Buongiorno, grazie per aver chiamato"
FallbackReply == "Mi dispiace, non ho compreso. Puo' ripetere?"
ApologyText == "Si e' verificato un errore. Riprovare piu' tardi."
ServerGreeting == "Buongiorno! Sono l'assistente virtuale"

\* what a caller can say, as recognised by the telephony layer
Utterances == {"Vorrei prenotare un tavolo"}
\* a form field of the request body: absent, empty or a text
SpeechFields == {undefined, ""} \cup Utterances
\* what the language backend can answer
Replies == {"Certo, per quante persone?"}

\* the n-th call identifier of the telephony layer
Sid(n) == "CA" \o ToString(n)

\* uuidv4(): a token never returned before
uuidv4(n) == "uuid-" \o ToString(n + 1)

(***************************************************************************)
(* Turns.  ev is a history field: the handler (arrival index) that         *)
(* appended the turn, 0 for the persona turn seeded at creation.           *)
(***************************************************************************)
Turn(role, content, ev) == [role |-> role, content |-> content, ev |-> ev]

\* mutant: unshift instead of push
Push_Unshift(history, turn) == <<turn>> \o history

\* Array.prototype.push
Push(history, turn) == Append(history, turn)

Has(s, callSid) == callSid \in DOMAIN s

Put(s, callSid, v) == [k \in DOMAIN s \cup {callSid} |-> IF k = callSid THEN v ELSE s[k]]

\* server.js: if (!sessions[callSid]) sessions[callSid] = [ {role: "system", ...} ]
ServerEnsureSession(s, callSid) ==
    IF Has(s, callSid) THEN s
    ELSE Put(s, callSid, <<Turn("system", SERVER_PROMPT, 0)>>)

\* part_000 /voice: if (!sessions.has(callSid)) sessions.set(callSid, {history, lastAudio: null})
VoiceEnsureSession(s, callSid) ==
    IF Has(s, callSid) THEN s
    ELSE Put(s, callSid, [history |-> <<Turn("system", PROMPT_TEMPLATE, 0)>>,
                          lastAudio |-> null])

\* mutant: the persona turn is pushed again when the session exists
GatherEnsureSession_Reseed(s, callSid) ==
    IF Has(s, callSid)
    THEN [s EXCEPT ![callSid].history = Append(@, Turn("system", PROMPT_TEMPLATE, 0))]
    ELSE Put(s, callSid, [history |-> <<Turn("system", PROMPT_TEMPLATE, 0)>>,
                          lastAudio |-> undefined])

\* mutant: the session is set without the has() test
GatherEnsureSession_Reset(s, callSid) ==
    Put(s, callSid, [history |-> <<Turn("system", PROMPT_TEMPLATE, 0)>>,
                     lastAudio |-> undefined])

\* part_000 /gather: if (!sessions.has(callSid)) sessions.set(callSid, {history})
GatherEnsureSession(s, callSid) ==
    IF Has(s, callSid) THEN s
    ELSE Put(s, callSid, [history |-> <<Turn("system", PROMPT_TEMPLATE, 0)>>,
                          lastAudio |-> undefined])

\* session.history.push(turn)
PushHistory(s, callSid, turn) ==
    [s EXCEPT ![callSid].history = Push(@, turn)]

\* mutant: only the persona turn and the latest turn are kept
ServerPushHistory_Replace(s, callSid, turn) ==
    [s EXCEPT ![callSid] = <<@[1], turn>>]

\* sessions[callSid].push(turn)
ServerPushHistory(s, callSid, turn) ==
    [s EXCEPT ![callSid] = Push(@, turn)]

\* mutant: lastAudio kept in one place shared by all sessions
SetLastAudio_All(s, callSid, audioUrl) ==
    [k \in DOMAIN s |-> [s[k] EXCEPT !.lastAudio = audioUrl]]

\* session.lastAudio = audioUrl
SetLastAudio(s, callSid, audioUrl) ==
    [s EXCEPT ![callSid].lastAudio = audioUrl]

\* the conversation history of a call, whichever the prototype
History(callSid) ==
    IF program = "server.js" THEN sessions[callSid] ELSE sessions[callSid].history

(***************************************************************************)
(* TwiML documents: the sequence of verbs under <Response>.                *)
(***************************************************************************)
Verb(verb, arg, body) == [verb |-> verb, arg |-> arg, body |-> body]

NoDoc == <<>>

\* mutant: the capture of the greeting document posts back to /voice
VoiceTwiml_Loop(audioUrl) ==
    << Verb("Play", audioUrl, ""),
       Verb("Gather", "/voice", "Parli quando e' pronto."),
       Verb("Say", "Non ho ricevuto risposta. Arrivederci.", ""),
       Verb("Hangup", "", "") >>

\* part_000:154-162
VoiceTwiml(audioUrl) ==
    << Verb("Play", audioUrl, ""),
       Verb("Gather", "/gather", "Parli quando e' pronto."),
       Verb("Say", "Non ho ricevuto risposta. Arrivederci.", ""),
       Verb("Hangup", "", "") >>

\* part_000:204-212
GatherTwiml(audioUrl) ==
    << Verb("Play", audioUrl, ""),
       Verb("Gather", "/gather", "Posso ancora aiutarla?"),
       Verb("Say", "Grazie! Arrivederci.", ""),
       Verb("Hangup", "", "") >>

\* part_000:167 and part_000:217
fallback ==
    << Verb("Say", ApologyText, ""), Verb("Hangup", "", "") >>

\* server.js:71-77
ServerTwiml(url) ==
    << Verb("Say", ServerGreeting, ""),
       Verb("Play", url, ""),
       Verb("Gather", "/voice", "") >>

(***************************************************************************)
(* Files.  A path is <<directory, name>>.                                  *)
(***************************************************************************)
NoFile == <<>>

\* mutant: every artifact is stored under one name
AudioPath_Fixed(id) == <<"public/audio", "reply.mp3">>

\* part_000:82-84: filepath = public/audio/<id>.mp3
AudioPath(id) == <<"public/audio", id \o ".mp3">>
\* mutant: the URL is built from the file path instead of the file name
AudioUrl_Path(filepath) == BASE_URL \o "/" \o filepath[1] \o "/" \o filepath[2]

\* part_000:86: `${BASE_URL}/audio/${filename}`
AudioUrl(filepath) == BASE_URL \o "/audio/" \o filepath[2]

\* server.js:60: speechFile = `./audio-${uuidv4()}.mp3`
SpeechFile(id) == <<".", "audio-" \o id \o ".mp3">>
\* server.js:74: `${BASE_URL}/audio/${speechFile.replace("./", "")}`
SpeechUrl(speechFile) == BASE_URL \o "/audio/" \o speechFile[2]

\* the directory express.static serves under /audio (server.js:83, part_000:126)
StaticRoot == IF program = "server.js" THEN "." ELSE "public/audio"

\* the audio bytes the speech backend renders for a text
Synthesized(text) == "mp3:" \o text

(***************************************************************************)
(* Handlers.                                                               *)
(***************************************************************************)
Arrived == 1..Len(handlers)

\* the telephony layer's identifiers seen so far; a new call takes the next one
SidsSeen == {handlers[r].CallSid : r \in Arrived} \ {undefined}
CallSidFields ==
    {undefined} \cup {Sid(n) : n \in 1..IF Cardinality(SidsSeen) < MaxCalls
                                       THEN Cardinality(SidsSeen) + 1
                                       ELSE MaxCalls}

\* mutant: only the latest turn is sent to the language backend
ChatPayload_LastOnly(conversation) ==
    [model |-> "gpt-4o-mini", messages |-> <<conversation[Len(conversation)]>>]

\* the request body of the chat completion (server.js:51-54, part_000:93-98)
ChatPayload(conversation) ==
    [model |-> "gpt-4o-mini", messages |-> conversation]

\* messages is a history field: the turn sequence handed to the language backend
NewHandler(route, CallSid, callSid, speech, pc, first) ==
    [route |-> route, CallSid |-> CallSid, callSid |-> callSid, speech |-> speech,
     pc |-> pc, first |-> first,
     chat |-> IF pc = "chat" THEN "pending" ELSE "none",
     tts |-> IF pc = "tts" THEN "pending" ELSE "none",
     store |-> "none",
     aiReply |-> undefined, audioBuffer |-> undefined, file |-> NoFile,
     messages |-> <<>>,
     doc |-> NoDoc]

Init ==
    /\ program \in Programs
    /\ sessions = <<>>
    /\ handlers = <<>>
    /\ files = <<>>
    /\ uuidCount = 0
    /\ created = <<>>

\* the handler's locals after a step
Step(r, h) == [handlers EXCEPT ![r] = h]

\* res.type('text/xml').send(doc)
Send(h, doc) == [h EXCEPT !.pc = "sent", !.doc = doc]

\* an exception leaves the async handler: its promise rejects, nothing is sent
Reject(h) == [h EXCEPT !.pc = "rejected"]

\* whether installing s1 created (or re-created) the session of callSid
Creates(s1, callSid) == ~Has(sessions, callSid) \/ s1[callSid] # sessions[callSid]

Log(s1, callSid) == IF Creates(s1, callSid) THEN Append(created, callSid) ELSE created

(***************************************************************************)
(* src/server.js, POST /voice                                              *)
(***************************************************************************)
\* server.js:29-54: up to the await of openai.chat.completions.create
ServerVoice ==
    /\ program = "server.js"
    /\ Len(handlers) < MaxReq
    /\ \E CallSid \in CallSidFields, SpeechResult \in SpeechFields :
         LET r == Len(handlers) + 1
             callSid == OrElse(CallSid, uuidv4(uuidCount))
             userSpeech == OrElse(SpeechResult, "")
             s1 == ServerEnsureSession(sessions, callSid)
             s2 == IF Truthy(userSpeech)
                   THEN ServerPushHistory(s1, callSid, Turn("user", userSpeech, r))
                   ELSE s1
         IN  /\ uuidCount' = IF Truthy(CallSid) THEN uuidCount ELSE uuidCount + 1
             /\ sessions' = s2
             /\ created' = Log(s1, callSid)
             /\ handlers' = Append(handlers,
                    [NewHandler("server.js /voice", CallSid, callSid, userSpeech,
                                "chat", Creates(s1, callSid))
                        EXCEPT !.messages = ChatPayload(s2[callSid]).messages])
    /\ UNCHANGED <<program, files>>

\* server.js:51-65: the chat completion settles; up to the await of audio.speech.create
ServerChat(r) ==
    /\ program = "server.js"
    /\ handlers[r].pc = "chat"
    /\ \/ \E aiText \in Replies :
            /\ sessions' = ServerPushHistory(sessions, handlers[r].callSid,
                                             Turn("assistant", aiText, r))
            /\ handlers' = Step(r, [handlers[r] EXCEPT !.pc = "tts", !.chat = "ok",
                                       !.tts = "pending", !.aiReply = aiText,
                                       !.file = SpeechFile(uuidv4(uuidCount))])
            /\ uuidCount' = uuidCount + 1
       \/ /\ handlers' = Step(r, Reject([handlers[r] EXCEPT !.chat = "failed"]))
          /\ UNCHANGED <<sessions, uuidCount>>
    /\ UNCHANGED <<program, files, created>>

\* server.js:61-67: the speech request settles; up to the await of tts.arrayBuffer()
ServerTTS(r) ==
    /\ program = "server.js"
    /\ handlers[r].pc = "tts"
    /\ \/ handlers' = Step(r, [handlers[r] EXCEPT !.pc = "arrayBuffer"])
       \/ handlers' = Step(r, Reject([handlers[r] EXCEPT !.tts = "failed"]))
    /\ UNCHANGED <<program, sessions, files, uuidCount, created>>

\* server.js:67-68: the body is read; up to the await of fs.writeFile
ServerArrayBuffer(r) ==
    /\ program = "server.js"
    /\ handlers[r].pc = "arrayBuffer"
    /\ \/ LET buffer == Synthesized(handlers[r].aiReply)
          IN  /\ handlers' = Step(r, [handlers[r] EXCEPT !.pc = "writeFile", !.tts = "ok",
                                         !.store = "pending", !.audioBuffer = buffer])
              /\ files' = Put(files, handlers[r].file,
                              [bytes |-> buffer, state |-> "writing"])
       \/ /\ handlers' = Step(r, Reject([handlers[r] EXCEPT !.tts = "failed"]))
          /\ UNCHANGED files
    /\ UNCHANGED <<program, sessions, uuidCount, created>>

\* server.js:68-80: the write settles; the TwiML is sent
ServerWriteFile(r) ==
    /\ program = "server.js"
    /\ handlers[r].pc = "writeFile"
    /\ \/ /\ files' = [files EXCEPT ![handlers[r].file].state = "written"]
          /\ handlers' = Step(r, Send([handlers[r] EXCEPT !.store = "ok"],
                                      ServerTwiml(SpeechUrl(handlers[r].file))))
       \/ /\ files' = [files EXCEPT ![handlers[r].file].state = "failed"]
          /\ handlers' = Step(r, Reject([handlers[r] EXCEPT !.store = "failed"]))
    /\ UNCHANGED <<program, sessions, uuidCount, created>>

(***************************************************************************)
(* src/unnamed/part_000, POST /voice                                       *)
(***************************************************************************)
\* part_000:134-149: up to the await of openaiTextToSpeech(greetingText)
Voice ==
    /\ program = "part_000"
    /\ Len(handlers) < MaxReq
    /\ \E CallSid \in CallSidFields :
         LET callSid == OrElse(CallSid, uuidv4(uuidCount))
             s1 == VoiceEnsureSession(sessions, callSid)
         IN  /\ uuidCount' = IF Truthy(CallSid) THEN uuidCount ELSE uuidCount + 1
             /\ sessions' = s1
             /\ created' = Log(s1, callSid)
             /\ handlers' = Append(handlers,
                    [NewHandler("/voice", CallSid, callSid, undefined, "tts",
                                Creates(s1, callSid))
                        EXCEPT !.aiReply = greetingText])
    /\ UNCHANGED <<program, files>>

(***************************************************************************)
(* src/unnamed/part_000, POST /gather                                      *)
(***************************************************************************)
\* part_000:173-190: up to the await of openaiChatReply(session.history)
Gather ==
    /\ program = "part_000"
    /\ Len(handlers) < MaxReq
    /\ \E CallSid \in CallSidFields, SpeechResult \in SpeechFields,
          TranscriptionText \in SpeechFields :
         LET r == Len(handlers) + 1
             callSid == OrElse(CallSid, "unknown")
             speechResult == OrElse(SpeechResult, OrElse(TranscriptionText, ""))
             s1 == GatherEnsureSession(sessions, callSid)
             s2 == PushHistory(s1, callSid, Turn("user", speechResult, r))
         IN  /\ sessions' = s2
             /\ created' = Log(s1, callSid)
             /\ handlers' = Append(handlers,
                    [NewHandler("/gather", CallSid, callSid, speechResult, "chat",
                                Creates(s1, callSid))
                        EXCEPT !.aiReply = FallbackReply,
                               !.messages = ChatPayload(s2[callSid].history).messages])
    /\ UNCHANGED <<program, files, uuidCount>>

\* part_000:189-199: the chat completion settles; up to the await of openaiTextToSpeech
GatherChat(r) ==
    /\ program = "part_000"
    /\ handlers[r].pc = "chat"
    /\ \/ \E aiReply \in Replies :
            /\ sessions' = PushHistory(sessions, handlers[r].callSid,
                                       Turn("assistant", aiReply, r))
            /\ handlers' = Step(r, [handlers[r] EXCEPT !.pc = "tts", !.chat = "ok",
                                       !.tts = "pending", !.aiReply = aiReply])
       \/ /\ handlers' = Step(r, [handlers[r] EXCEPT !.pc = "tts", !.chat = "failed",
                                      !.tts = "pending"])
          /\ UNCHANGED sessions
    /\ UNCHANGED <<program, files, uuidCount, created>>

(***************************************************************************)
(* src/unnamed/part_000, speech synthesis and saveAudioBuffer, as called   *)
(* from the try blocks of /voice (148-169) and /gather (198-219)           *)
(***************************************************************************)
\* mutant: a speech request is taken up only when every earlier event is answered
TextToSpeech_Serial(r) ==
    /\ program = "part_000"
    /\ handlers[r].pc = "tts"
    /\ \A q \in 1..(r - 1) : handlers[q].pc \in {"sent", "rejected"}
    /\ \/ handlers' = Step(r, [handlers[r] EXCEPT !.pc = "ensureDir", !.tts = "ok",
                                   !.store = "pending",
                                   !.audioBuffer = Synthesized(handlers[r].aiReply)])
       \/ handlers' = Step(r, Send([handlers[r] EXCEPT !.tts = "failed"], fallback))
    /\ UNCHANGED <<program, sessions, files, uuidCount, created>>

\* part_000:149/199 and 80-81: the speech request settles; up to the await of fs.ensureDir
TextToSpeech(r) ==
    /\ program = "part_000"
    /\ handlers[r].pc = "tts"
    /\ \/ handlers' = Step(r, [handlers[r] EXCEPT !.pc = "ensureDir", !.tts = "ok",
                                   !.store = "pending",
                                   !.audioBuffer = Synthesized(handlers[r].aiReply)])
       \/ handlers' = Step(r, Send([handlers[r] EXCEPT !.tts = "failed"], fallback))
    /\ UNCHANGED <<program, sessions, files, uuidCount, created>>

\* part_000:81-85: the directory exists; up to the await of fs.writeFile
EnsureDir(r) ==
    /\ program = "part_000"
    /\ handlers[r].pc = "ensureDir"
    /\ \/ LET filepath == AudioPath(uuidv4(uuidCount))
          IN  /\ handlers' = Step(r, [handlers[r] EXCEPT !.pc = "writeFile",
                                                          !.file = filepath])
              /\ files' = Put(files, filepath,
                              [bytes |-> handlers[r].audioBuffer, state |-> "writing"])
              /\ uuidCount' = uuidCount + 1
       \/ /\ handlers' = Step(r, Send([handlers[r] EXCEPT !.store = "failed"], fallback))
          /\ UNCHANGED <<files, uuidCount>>
    /\ UNCHANGED <<program, sessions, created>>

\* part_000:85-86, then 151-164 or 201-214: the write settles; the TwiML is sent
WriteFile(r) ==
    /\ program = "part_000"
    /\ handlers[r].pc = "writeFile"
    /\ LET filepath == handlers[r].file
           audioUrl == AudioUrl(filepath)
       IN  \/ /\ files' = [files EXCEPT ![filepath].state = "written"]
              /\ sessions' = SetLastAudio(sessions, handlers[r].callSid, audioUrl)
              /\ handlers' = Step(r, Send([handlers[r] EXCEPT !.store = "ok"],
                                          IF handlers[r].route = "/voice"
                                          THEN VoiceTwiml(audioUrl)
                                          ELSE GatherTwiml(audioUrl)))
           \/ /\ files' = [files EXCEPT ![filepath].state = "failed"]
              /\ handlers' = Step(r, Send([handlers[r] EXCEPT !.store = "failed"], fallback))
              /\ UNCHANGED sessions
    /\ UNCHANGED <<program, uuidCount, created>>

Next ==
    \/ ServerVoice
    \/ \E r \in Arrived : ServerChat(r)
    \/ \E r \in Arrived : ServerTTS(r)
    \/ \E r \in Arrived : ServerArrayBuffer(r)
    \/ \E r \in Arrived : ServerWriteFile(r)
    \/ Voice
    \/ Gather
    \/ \E r \in Arrived : GatherChat(r)
    \/ \E r \in Arrived : TextToSpeech(r)
    \/ \E r \in Arrived : EnsureDir(r)
    \/ \E r \in Arrived : WriteFile(r)

Spec == Init /\ [][Next]_vars

(***************************************************************************)
(* Vocabulary of the properties.                                           *)
(***************************************************************************)
\* the positions of the turns handler r appended with the given role
TurnsOf(r, role) ==
    LET h == History(handlers[r].callSid)
    IN  {i \in 1..Len(h) : h[i].ev = r /\ h[i].role = role}

Persona == Turn("system", IF program = "server.js" THEN SERVER_PROMPT ELSE PROMPT_TEMPLATE, 0)

\* the handler has returned: a document was sent, or its promise rejected
Finished(r) == handlers[r].pc \in {"sent", "rejected"}

\* the request carried a recognised utterance
HasSpeech(r) == Truthy(handlers[r].speech)

HasVerb(doc, verb) == \E i \in 1..Len(doc) : doc[i].verb = verb

\* the document plays a stored artifact holding the rendering of text
PlaysText(doc, text) ==
    \E i \in 1..Len(doc), f \in DOMAIN files :
        /\ doc[i].verb = "Play"
        /\ f[1] = StaticRoot
        /\ doc[i].arg = BASE_URL \o "/audio/" \o f[2]
        /\ files[f].bytes = Synthesized(text)

\* a continue document: playback and a capture instruction
IsContinue(doc) == HasVerb(doc, "Play") /\ HasVerb(doc, "Gather")

\* a terminate document: only a spoken apology and the call-end instruction
IsTerminate(doc) ==
    /\ Len(doc) = 2
    /\ doc[1].verb = "Say" /\ doc[1].arg = ApologyText
    /\ doc[2].verb = "Hangup"

IsPrefix(a, b) == Len(a) <= Len(b) /\ SubSeq(b, 1, Len(a)) = a

\* the handler whose step this is
Acting(r) ==
    /\ r \in 1..Len(handlers')
    /\ r \in Arrived => handlers'[r].pc # handlers[r].pc

(***************************************************************************)
(* C1: for every call identifier that has a session, the first turn of its *)
(* history is the persona (system) turn and no other position holds a      *)
(* persona turn.                                                           *)
(***************************************************************************)
C1_PersonaFirstAndOnce ==
    \A c \in DOMAIN sessions :
        /\ Len(History(c)) >= 1
        /\ History(c)[1] = Persona
        /\ \A i \in 2..Len(History(c)) : History(c)[i].role # "system"

\* a session that two events have filled: persona, two caller and two assistant turns
C1_Witness ==
    \E c \in DOMAIN sessions :
        /\ Len(History(c)) = 5
        /\ Cardinality({r \in Arrived : handlers[r].callSid = c}) >= 2

(***************************************************************************)
(* C2 as stated: every event makes the history grow by exactly one caller  *)
(* turn, and by exactly one assistant turn when reply generation succeeded *)
(* for it, by none otherwise.                                              *)
(***************************************************************************)
C2_OneCallerTurnPerEvent ==
    \A r \in Arrived :
        /\ Cardinality(TurnsOf(r, "user")) = 1
        /\ Cardinality(TurnsOf(r, "assistant")) = IF handlers[r].chat = "ok" THEN 1 ELSE 0

\* the events that append a caller turn: every /gather event, and a /voice
\* event of server.js that carries a non-empty utterance
AppendsCaller(r) ==
    \/ handlers[r].route = "/gather"
    \/ handlers[r].route = "server.js /voice" /\ HasSpeech(r)

(***************************************************************************)
(* C2 amended: every event makes the history grow by at most one caller    *)
(* turn (exactly one for a /gather event and for a server.js /voice event  *)
(* with a non-empty utterance, none for a part_000 /voice event and for a  *)
(* server.js /voice event without utterance) and by exactly one assistant  *)
(* turn when reply generation succeeded for it, by none otherwise; every   *)
(* step leaves each history a prefix of what it becomes.                   *)
(***************************************************************************)
C2_HistoryGrowth ==
    /\ [](\A r \in Arrived :
            /\ Cardinality(TurnsOf(r, "user")) = IF AppendsCaller(r) THEN 1 ELSE 0
            /\ Cardinality(TurnsOf(r, "assistant")) =
                   IF handlers[r].chat = "ok" THEN 1 ELSE 0)
    /\ [][\A c \in DOMAIN sessions :
            /\ c \in DOMAIN sessions'
            /\ IsPrefix(History(c), History(c)')]_vars

\* on one call, an event whose reply was generated and one whose generation failed,
\* both answered
C2_Witness ==
    \E r1, r2 \in Arrived :
        /\ handlers[r1].callSid = handlers[r2].callSid
        /\ handlers[r1].chat = "ok" /\ handlers[r2].chat = "failed"
        /\ handlers[r1].pc = "sent" /\ handlers[r2].pc = "sent"
        /\ TurnsOf(r1, "assistant") # {} /\ TurnsOf(r2, "user") # {}

(***************************************************************************)
(* C3: every inbound event receives a document: a failure of reply         *)
(* generation, of speech synthesis or of the artifact write is caught in   *)
(* the handler, which never ends without having sent a document.           *)
(***************************************************************************)
C3_FailuresCaught ==
    \A r \in Arrived :
        /\ handlers[r].pc # "rejected"
        /\ handlers[r].pc = "sent" => IsContinue(handlers[r].doc) \/ IsTerminate(handlers[r].doc)

(***************************************************************************)
(* C4: when reply generation failed for an event, the history holds no     *)
(* assistant turn of that event, and (speech synthesis and the artifact    *)
(* write not failing) the event is answered by a document that plays the   *)
(* spoken fallback reply and continues the capture.                        *)
(***************************************************************************)
C4_GenerationFailureContinues ==
    \A r \in Arrived :
        handlers[r].chat = "failed" /\ Finished(r) =>
            /\ TurnsOf(r, "assistant") = {}
            /\ handlers[r].tts # "failed" /\ handlers[r].store # "failed" =>
                   /\ PlaysText(handlers[r].doc, FallbackReply)
                   /\ HasVerb(handlers[r].doc, "Gather")

(***************************************************************************)
(* C5: when speech synthesis failed after reply generation succeeded, the  *)
(* event is answered by a document holding only a spoken apology and the   *)
(* call-termination instruction, and no playback instruction.              *)
(***************************************************************************)
C5_SynthesisFailureTerminates ==
    \A r \in Arrived :
        handlers[r].chat = "ok" /\ handlers[r].tts = "failed" /\ Finished(r) =>
            /\ IsTerminate(handlers[r].doc)
            /\ ~HasVerb(handlers[r].doc, "Play")

(***************************************************************************)
(* C6: once the handling of an event has completed, every assistant turn   *)
(* it left in the history is one whose text was synthesized and returned   *)
(* to the caller in a playback document.                                   *)
(***************************************************************************)
C6_AssistantTurnsWereSpoken ==
    \A r \in Arrived :
        Finished(r) =>
            \A i \in TurnsOf(r, "assistant") :
                PlaysText(handlers[r].doc, History(handlers[r].callSid)[i].content)

(***************************************************************************)
(* C7: whatever the interleaving of the events of one call identifier,     *)
(* among them two events for a brand-new identifier, one session is        *)
(* created for it, its history holds one persona turn, and the caller turn *)
(* of every event that carried one is in the history.                      *)
(***************************************************************************)
C7_OneSessionNoLostTurn ==
    /\ \A i, j \in 1..Len(created) : created[i] = created[j] => i = j
    /\ \A c \in DOMAIN sessions :
          Cardinality({i \in 1..Len(History(c)) : History(c)[i].role = "system"}) = 1
    /\ \A r \in Arrived :
          AppendsCaller(r) =>
              \E i \in 1..Len(History(handlers[r].callSid)) :
                  History(handlers[r].callSid)[i] = Turn("user", handlers[r].speech, r)

\* two events of a brand-new call, both suspended on the reply gateway
C7_Witness ==
    /\ Len(handlers) >= 2
    /\ handlers[1].callSid = handlers[2].callSid
    /\ handlers[1].first
    /\ handlers[1].pc = "chat" /\ handlers[2].pc = "chat"
    /\ AppendsCaller(1) /\ AppendsCaller(2)

(***************************************************************************)
(* C8: the first event of a call identifier, carrying no speech, does not  *)
(* invoke reply generation, is answered (synthesis and write succeeding)   *)
(* by a document that plays the synthesized greeting and captures, and     *)
(* appends nothing to the history, which holds the persona turn only when  *)
(* no other event of the call has arrived.                                 *)
(***************************************************************************)
C8_FirstEventGreets ==
    \A r \in Arrived :
        handlers[r].first /\ ~HasSpeech(r) /\ Finished(r) =>
            /\ handlers[r].chat = "none"
            /\ handlers[r].tts = "ok" /\ handlers[r].store = "ok" =>
                   /\ PlaysText(handlers[r].doc, greetingText)
                   /\ HasVerb(handlers[r].doc, "Gather")
            /\ TurnsOf(r, "user") \cup TurnsOf(r, "assistant") = {}
            /\ (\A q \in Arrived : handlers[q].callSid = handlers[r].callSid => q = r)
                   => Len(History(handlers[r].callSid)) = 1

(***************************************************************************)
(* C9: of two events of one call identifier, every turn appended for the   *)
(* one that arrived first precedes every turn appended for the other.      *)
(***************************************************************************)
C9_ArrivalOrder ==
    \A r1, r2 \in Arrived :
        r1 < r2 /\ handlers[r1].callSid = handlers[r2].callSid =>
            \A i \in TurnsOf(r1, "user") \cup TurnsOf(r1, "assistant") :
                \A j \in TurnsOf(r2, "user") \cup TurnsOf(r2, "assistant") : i < j

(***************************************************************************)
(* C10: a step of the handler of an event of call identifier c leaves the  *)
(* session of every other call identifier as it was: a session is created  *)
(* or changed only by a handler of its own call identifier.                *)
(***************************************************************************)
C10_OtherSessionsUnchanged ==
    [][\A d \in DOMAIN sessions \cup DOMAIN sessions' :
          (d \notin DOMAIN sessions \/ d \notin DOMAIN sessions' \/ sessions'[d] # sessions[d])
              => \E r \in 1..Len(handlers') : Acting(r) /\ handlers'[r].callSid = d]_vars

\* two calls in progress, each with its session written by its own handler
C10_Witness ==
    \E r1, r2 \in Arrived :
        /\ handlers[r1].callSid # handlers[r2].callSid
        /\ handlers[r1].pc = "sent" /\ handlers[r1].store = "ok"
        /\ handlers[r2].pc = "writeFile"
        /\ Len(History(handlers[r1].callSid)) > 1
        /\ Len(History(handlers[r2].callSid)) > 1
\* no failure of a gateway or of the artifact write has hit the handler
NoFailure(r) ==
    handlers[r].chat # "failed" /\ handlers[r].tts # "failed" /\ handlers[r].store # "failed"

(***************************************************************************)
(* C11: an event whose speech-recognition result is missing (the handlers  *)
(* read a missing and an empty result as the same value) appends no caller *)
(* turn to the history, and is answered by a document, not by an error,    *)
(* when no gateway fails.                                                  *)
(***************************************************************************)
C11_MissingSpeechNoCallerTurn ==
    \A r \in Arrived :
        ~HasSpeech(r) =>
            /\ TurnsOf(r, "user") = {}
            /\ Finished(r) /\ NoFailure(r) => handlers[r].pc = "sent"

(***************************************************************************)
(* C12: an event that carries no call identifier is not rejected: its      *)
(* handler works under a fallback identifier, a session exists under that  *)
(* identifier from the first step on, and the event is answered as any     *)
(* other: by a continue document when no gateway fails.                    *)
(***************************************************************************)
C12_MissingCallSidFallback ==
    \A r \in Arrived :
        handlers[r].CallSid = undefined =>
            /\ Truthy(handlers[r].callSid)
            /\ Has(sessions, handlers[r].callSid)
            /\ History(handlers[r].callSid)[1] = Persona
            /\ Finished(r) /\ NoFailure(r) =>
                   handlers[r].pc = "sent" /\ IsContinue(handlers[r].doc)

\* an event without call identifier, answered by a continue document
C12_Witness ==
    \E r \in Arrived :
        /\ handlers[r].CallSid = undefined
        /\ handlers[r].pc = "sent"
        /\ IsContinue(handlers[r].doc)
        /\ handlers[r].first
\* the URL under which express.static serves a stored file
PublicRef(f) == BASE_URL \o "/audio/" \o f[2]

\* the endpoint a handler was invoked on
Endpoint(r) == IF handlers[r].route = "/gather" THEN "/gather" ELSE "/voice"

\* the endpoint that takes the caller's utterances
CaptureEndpoint == IF program = "server.js" THEN "/voice" ELSE "/gather"

\* the document of r plays the audio stored by r and then captures, posting to action
PlayThenGather(r, action) ==
    \E i, j \in 1..Len(handlers[r].doc) :
        /\ i < j
        /\ handlers[r].doc[i].verb = "Play"
        /\ handlers[r].file # NoFile
        /\ handlers[r].file[1] = StaticRoot
        /\ handlers[r].doc[i].arg = PublicRef(handlers[r].file)
        /\ handlers[r].doc[j].verb = "Gather"
        /\ handlers[r].doc[j].arg = action

(***************************************************************************)
(* C13 as stated: every returned document is either a continue document,   *)
(* a playback of the synthesized audio's public URL followed by a capture  *)
(* that re-invokes the endpoint that produced the document, holding no     *)
(* call-end instruction, or a terminate document, a spoken apology         *)
(* followed by a call-end instruction, holding no playback.                *)
(***************************************************************************)
C13_TwoShapes ==
    \A r \in Arrived :
        handlers[r].pc = "sent" =>
            \/ PlayThenGather(r, Endpoint(r)) /\ ~HasVerb(handlers[r].doc, "Hangup")
            \/ IsTerminate(handlers[r].doc) /\ ~HasVerb(handlers[r].doc, "Play")

(***************************************************************************)
(* C13 amended: every returned document is either a continue document, a   *)
(* playback of the synthesized audio's public URL followed by a capture    *)
(* that posts to the endpoint taking utterances (/gather in part_000, also *)
(* from the document of /voice; /voice in server.js), with no call-end     *)
(* instruction before the capture (part_000 closes the document with a     *)
(* goodbye and a call-end instruction after it), or a terminate document,  *)
(* a spoken apology followed by a call-end instruction, holding neither    *)
(* playback nor capture.                                                   *)
(***************************************************************************)
C13_TwoShapesAmended ==
    \A r \in Arrived :
        handlers[r].pc = "sent" =>
            \/ /\ PlayThenGather(r, CaptureEndpoint)
               /\ \A i, j \in 1..Len(handlers[r].doc) :
                      handlers[r].doc[i].verb = "Hangup" /\ handlers[r].doc[j].verb = "Gather"
                          => j < i
            \/ /\ IsTerminate(handlers[r].doc)
               /\ ~HasVerb(handlers[r].doc, "Play")
               /\ ~HasVerb(handlers[r].doc, "Gather")

\* a greeting document of /voice and a terminate document, both returned
C13_Witness ==
    \E r1, r2 \in Arrived :
        /\ handlers[r1].route = "/voice" /\ handlers[r1].pc = "sent"
        /\ IsContinue(handlers[r1].doc)
        /\ handlers[r2].pc = "sent" /\ IsTerminate(handlers[r2].doc)
\* the stored files a URL resolves to
Served(url) == {f \in DOMAIN files : f[1] = StaticRoot /\ PublicRef(f) = url}

(***************************************************************************)
(* C14: whenever a returned document holds a playback instruction, the     *)
(* artifact it references is completely written, from the moment the       *)
(* document is sent on: no document references an artifact whose write is  *)
(* pending, has failed or never started.                                   *)
(***************************************************************************)
C14_PlayedArtifactWritten ==
    \A r \in Arrived :
        \A i \in 1..Len(handlers[r].doc) :
            handlers[r].doc[i].verb = "Play" =>
                /\ Served(handlers[r].doc[i].arg) # {}
                /\ \A f \in Served(handlers[r].doc[i].arg) : files[f].state = "written"

\* a document with a playback has been returned while another write is pending
C14_Witness ==
    \E r1, r2 \in Arrived :
        /\ handlers[r1].pc = "sent" /\ HasVerb(handlers[r1].doc, "Play")
        /\ handlers[r2].pc = "writeFile"
        /\ files[handlers[r2].file].state = "writing"
(***************************************************************************)
(* C15: any two store operations, also of identical bytes and also running *)
(* concurrently, produce artifacts with distinct ids and distinct public   *)
(* references, and no step overwrites or removes an artifact written       *)
(* earlier.                                                                *)
(***************************************************************************)
C15_DistinctArtifacts ==
    /\ [](\A r1, r2 \in Arrived :
            r1 # r2 /\ handlers[r1].file # NoFile /\ handlers[r2].file # NoFile =>
                /\ handlers[r1].file # handlers[r2].file
                /\ PublicRef(handlers[r1].file) # PublicRef(handlers[r2].file))
    /\ [][\A f \in DOMAIN files :
            /\ f \in DOMAIN files'
            /\ files'[f].bytes = files[f].bytes
            /\ files[f].state = "written" => files'[f].state = "written"]_vars

\* two stores of the same bytes, both completed, under two names
C15_Witness ==
    \E r1, r2 \in Arrived :
        /\ r1 # r2
        /\ handlers[r1].store = "ok" /\ handlers[r2].store = "ok"
        /\ handlers[r1].audioBuffer = handlers[r2].audioBuffer
        /\ handlers[r1].file # handlers[r2].file
        /\ files[handlers[r1].file].bytes = files[handlers[r2].file].bytes
(***************************************************************************)
(* C16: sessions are append-only and permanent: no step removes or         *)
(* replaces the session of a call identifier, and every step leaves each   *)
(* history a prefix of what it becomes (no turn changes, is deleted or     *)
(* moves), also on the paths where generation or synthesis fails; a        *)
(* session is created only for an identifier that had none.                *)
(***************************************************************************)
C16_AppendOnlySessions ==
    [][/\ DOMAIN sessions \subseteq DOMAIN sessions'
       /\ \A c \in DOMAIN sessions :
             /\ IsPrefix(History(c), History(c)')
       /\ created' # created =>
             \E c \in DOMAIN sessions' \ DOMAIN sessions : created' = Append(created, c)]_vars

\* a call whose history outlived a failed generation and a failed synthesis
C16_Witness ==
    \E r1, r2 \in Arrived :
        /\ handlers[r1].callSid = handlers[r2].callSid
        /\ handlers[r1].chat = "failed" /\ Finished(r1)
        /\ handlers[r2].chat = "ok" /\ handlers[r2].tts = "failed" /\ Finished(r2)
        /\ Len(History(handlers[r1].callSid)) >= 3
\* the history of callSid in the store s
HistoryIn(s, callSid) == IF program = "server.js" THEN s[callSid] ELSE s[callSid].history

Last(seq) == seq[Len(seq)]

(***************************************************************************)
(* C17 as stated: on every event that invokes reply generation, the turn   *)
(* sequence given to the gateway starts with the persona turn, is the      *)
(* history in order, and ends with the caller turn just appended for this  *)
(* event.                                                                  *)
(***************************************************************************)
C17_GatewayGetsHistoryEndingWithCaller ==
    \A r \in Arrived :
        handlers[r].chat # "none" =>
            /\ handlers[r].messages[1] = Persona
            /\ IsPrefix(handlers[r].messages, History(handlers[r].callSid))
            /\ Last(handlers[r].messages).role = "user"
            /\ Last(handlers[r].messages).ev = r

(***************************************************************************)
(* C17 amended: on every event that invokes reply generation, the turn     *)
(* sequence given to the gateway is the session's complete history at that *)
(* moment in order: it starts with the persona turn, contains every        *)
(* previously appended turn and, when the event appended a caller turn,    *)
(* ends with it; a server.js /voice event without utterance appends none   *)
(* and its sequence holds no turn of the event.                            *)
(***************************************************************************)
C17_GatewayGetsFullHistory ==
    /\ [](\A r \in Arrived :
            handlers[r].chat # "none" =>
                /\ handlers[r].messages # <<>>
                /\ handlers[r].messages[1] = Persona
                /\ IsPrefix(handlers[r].messages, History(handlers[r].callSid))
                /\ IF AppendsCaller(r)
                   THEN Last(handlers[r].messages) = Turn("user", handlers[r].speech, r)
                   ELSE \A i \in 1..Len(handlers[r].messages) :
                            handlers[r].messages[i].ev # r)
    /\ [][\A r \in 1..Len(handlers') :
            r \notin Arrived /\ handlers'[r].chat # "none" =>
                handlers'[r].messages = HistoryIn(sessions', handlers'[r].callSid)]_vars

\* an event on a call with earlier turns, its caller turn the last of what the gateway got
C17_Witness ==
    \E r \in Arrived :
        /\ handlers[r].chat = "ok"
        /\ Len(handlers[r].messages) >= 4
        /\ Last(handlers[r].messages) = Turn("user", handlers[r].speech, r)
        /\ \E i \in 1..Len(handlers[r].messages) : handlers[r].messages[i].role = "assistant"
\* the next step of handler r: the settling of the call it awaits
Resume(r) ==
    \/ ServerChat(r) \/ ServerTTS(r) \/ ServerArrayBuffer(r) \/ ServerWriteFile(r)
    \/ GatherChat(r) \/ TextToSpeech(r) \/ EnsureDir(r) \/ WriteFile(r)

\* the arrival of a new event
Arrival == ServerVoice \/ Voice \/ Gather

(***************************************************************************)
(* C18: while the handler of an event of call A is suspended on a gateway  *)
(* call or on the artifact write, a new event can be taken up (within the  *)
(* modelled number of events), and the handler of an event of another call *)
(* B can take each of its steps as soon as the call it awaits settles,     *)
(* up to returning its document: none of them waits for A.                 *)
(***************************************************************************)
C18_NoWaitingForOtherCalls ==
    \A a \in Arrived :
        ~Finished(a) =>
            /\ Len(handlers) < MaxReq => ENABLED Arrival
            /\ \A b \in Arrived :
                   handlers[b].callSid # handlers[a].callSid /\ ~Finished(b) =>
                       ENABLED Resume(b)

\* an event of another call arrived after A's and was answered while A's awaits its reply
C18_Witness ==
    \E a, b \in Arrived :
        /\ a < b
        /\ handlers[a].callSid # handlers[b].callSid
        /\ handlers[a].pc = "chat"
        /\ handlers[b].pc = "sent" /\ IsContinue(handlers[b].doc)
        /\ Len(History(handlers[b].callSid)) > 1
\* the document speaks the fixed greeting: server.js says it, part_000 plays its rendering
HasGreeting(doc) ==
    \/ \E i \in 1..Len(doc) : doc[i].verb = "Say" /\ doc[i].arg = ServerGreeting
    \/ PlaysText(doc, greetingText)

(***************************************************************************)
(* C19: the fixed greeting is spoken at most once per call: a returned     *)
(* document holds the greeting only if it answers the first event of its   *)
(* call identifier.  Stated for the events of the endpoint that takes the  *)
(* caller's utterances; the incoming-call webhook of part_000, /voice,     *)
(* greets whenever it is invoked.                                          *)
(***************************************************************************)
C19_GreetingOnlyOnFirstEvent ==
    \A r \in Arrived :
        /\ Endpoint(r) = CaptureEndpoint
        /\ handlers[r].pc = "sent"
        /\ HasGreeting(handlers[r].doc)
        => handlers[r].first

(***************************************************************************)
(* C20: two events that both lack a call identifier never share a session: *)
(* their fallback identifiers differ, and no caller turn of the one is in  *)
(* the turn sequence given to the language backend for the other.          *)
(***************************************************************************)
C20_FallbackIdentifiersDiffer ==
    \A r1, r2 \in Arrived :
        r1 # r2 /\ handlers[r1].CallSid = undefined /\ handlers[r2].CallSid = undefined =>
            /\ handlers[r1].callSid # handlers[r2].callSid
            /\ \A i \in 1..Len(handlers[r2].messages) :
                   ~(handlers[r2].messages[i].role = "user" /\ handlers[r2].messages[i].ev = r1)
====
